---- MODULE Spec2Model ----
(***************************************************************************)
(* Model of the content loader (lib/markdown), the blog page and the       *)
(* locale routing code (middleware.ts, lib/locale.ts, lib/dictionary.ts)   *)
(* of nisabmohd/personal-blog.                                             *)
(*                                                                         *)
(* Strings that the code inspects character by character (pathnames, raw   *)
(* file text) are sequences of one-character strings.  A value that may    *)
(* be null or undefined is a sequence of length at most one.               *)
(***************************************************************************)
EXTENDS Integers, Sequences, FiniteSets, TLC

VARIABLES
    pathname,   \* request.nextUrl.pathname of the request being served
    response,   \* what the middleware answered for it
    hops,       \* redirects the client has followed for this navigation
    layout,     \* outcome of RootLayout ([lang] route) for the request
    files,      \* src/content/blog in fs.readdir order, one entry per file
    op,         \* the content operation that ran last, with its argument
    ret,        \* what that operation returned (or threw)
    prev,       \* the readMDX call made just before the last one, if any
    fileContent,\* raw text of the file the map callback of readMDX is given
    parsed      \* what the callback returned for it

localeVars == <<pathname, response, hops, layout>>
contentVars == <<files, op, ret, prev>>
readingVars == <<fileContent, parsed>>

vars == <<pathname, response, hops, layout, files, op, ret, prev,
          fileContent, parsed>>

----------------------------------------------------------------------------
(* Bounds *)

MaxLen == 4       \* longest request pathname a client sends first
MaxHops == 3      \* redirects a client follows before giving up
MaxDocs == 3      \* most files in the content directory
MaxPad == 1       \* most whitespace characters before / after the text
MaxSep == 2       \* most whitespace characters between two words

Chars == {"/", "e", "n", "f", "r", "j", "a", "x"}

RECURSIVE SeqsOfLen(_, _)
SeqsOfLen(S, n) ==
    IF n = 0 THEN {<<>>}
    ELSE {Append(s, c) : s \in SeqsOfLen(S, n - 1), c \in S}

\* pathnames of a URL always start with "/"
Pathnames ==
    UNION {{<<"/">> \o s : s \in SeqsOfLen(Chars, n)} : n \in 0..(MaxLen - 1)}

----------------------------------------------------------------------------
(* Generic helpers *)

Range(s) == {s[i] : i \in DOMAIN s}

Front(s) == SubSeq(s, 1, Len(s) - 1)

Last(s) == s[Len(s)]

\* an optional value: <<>> is absent (null / undefined), <<v>> is v
Absent == <<>>
Some(v) == <<v>>

\* the permutations of 1..n, as functions
Perms(n) == {f \in [1..n -> 1..n] : \A i, j \in 1..n : i # j => f[i] # f[j]}

----------------------------------------------------------------------------
(* lib/markdown: documents *)

RequiredFields ==
    {"title", "slug", "description", "author", "published", "tags"}

\* A parsed frontmatter block.  `missing' holds the keys the block does
\* not have (they read as undefined); a missing key's field holds a filler.
MDXFrontmatter(slug, published, tags, missing) ==
    [title       |-> "title",
     slug        |-> IF "slug" \in missing THEN "" ELSE slug,
     description |-> "description",
     author      |-> "author",
     published   |-> IF "published" \in missing THEN 0 ELSE published,
     tags        |-> IF "tags" \in missing THEN <<>> ELSE tags,
     missing     |-> missing]

has(fm, key) == key \notin fm.missing

\* raw text of the files of a collection: the text is what
\* estimateReadingTime reads, see the reading-time section
RawText == <<"w", " ", "w", "\n">>

MDXFile(fm) == [frontmatter |-> fm, text |-> RawText]

\* compileMDX with parseFrontmatter: the frontmatter as written (nothing
\* is validated) and the compiled body, an opaque artifact
compileMDX(file) == [frontmatter |-> file.frontmatter, content |-> "compiled"]

----------------------------------------------------------------------------
(* lib/markdown: estimateReadingTime *)

isWhitespace(c) == c \in {" ", "\n"}

\* text.split(/\s+/) on s[lo..hi]: the pieces between maximal runs of
\* whitespace, the empty piece before a leading run and after a trailing
\* run included; "" splits into one empty piece.  Two halves are joined at
\* the cut: a run that spans the cut is one separator, a word that spans it
\* is one piece.
RECURSIVE splitRange(_, _, _)
splitRange(s, lo, hi) ==
    IF lo > hi THEN << <<>> >>
    ELSE IF lo = hi
    THEN IF isWhitespace(s[lo]) THEN << <<>>, <<>> >> ELSE << <<s[lo]>> >>
    ELSE LET mid == (lo + hi) \div 2
             ta == splitRange(s, lo, mid)
             tb == splitRange(s, mid + 1, hi)
         IN  IF isWhitespace(s[mid]) /\ isWhitespace(s[mid + 1])
             THEN Front(ta) \o Tail(tb)
             ELSE Front(ta) \o <<Last(ta) \o Head(tb)>> \o Tail(tb)

splitWhitespace(text) == splitRange(text, 1, Len(text))

\* Math.ceil(a / b) for a >= 0, b > 0
ceilDiv(a, b) == (a + b - 1) \div b

wordsPerMinute == 200

estimateReadingTime(text) ==
    LET wordCount == Len(splitWhitespace(text))
    IN  ceilDiv(wordCount, wordsPerMinute)

----------------------------------------------------------------------------
(* lib/markdown: sorting *)

\* Array.prototype.sort with a consistent comparator: stable, so seq[i]
\* lands after every seq[j] that compares lower, or equal and earlier.
\* cmp[a, b] is the number the comparator callback returns for (a, b).
sort(seq, cmp) ==
    LET rank(i) == 1 + Cardinality({j \in DOMAIN seq :
                        \/ cmp[seq[j], seq[i]] < 0
                        \/ cmp[seq[j], seq[i]] = 0 /\ j < i})
    IN  [k \in DOMAIN seq |-> seq[CHOOSE i \in DOMAIN seq : rank(i) = k]]

\* With a published key missing the comparator yields NaN and is no longer
\* consistent: the order sort leaves is implementation-defined, any
\* permutation may result.
sortOutcomes(seq, cmp, consistent) ==
    IF consistent THEN {sort(seq, cmp)}
    ELSE {[k \in DOMAIN seq |-> seq[f[k]]] : f \in Perms(Len(seq))}

\* (a, b) => b.published - a.published
cmpPublishedDescSwapped(a, b) == a.published - b.published

cmpPublishedDesc(a, b) == b.published - a.published

\* (a, b) => a.frontmatter.published - b.frontmatter.published
cmpPublishedAscSwapped(a, b) == b.frontmatter.published - a.frontmatter.published

cmpPublishedAsc(a, b) == a.frontmatter.published - b.frontmatter.published

----------------------------------------------------------------------------
(* lib/markdown: getAllMetaData, getAllTags *)

Ok(v) == [kind |-> "ok", value |-> v]
Throws(e) == [kind |-> "error", error |-> e]

\* (item) => item.tags.includes(tag)
includesTag(item, tag) == tag \in Range(item.tags)

\* The outcomes of getAllMetaData({tag}): one, unless the sort is
\* implementation-defined.  item.tags.includes throws TypeError for an item
\* without tags; "" is falsy, so no filter is applied for it.
getAllMetaData(fs, tag) ==
    LET result == [i \in DOMAIN fs |-> compileMDX(fs[i]).frontmatter]
        consistent == \A i \in DOMAIN result : has(result[i], "published")
        byPublished == [a \in Range(result), b \in Range(result) |->
                           cmpPublishedDesc(a, b)]
    IN  { IF tag # ""
          THEN IF \E i \in DOMAIN sorted : ~has(sorted[i], "tags")
               THEN Throws("TypeError")
               ELSE Ok(SelectSeq(sorted, LAMBDA item : includesTag(item, tag)))
          ELSE Ok(sorted)
          : sorted \in sortOutcomes(result, byPublished, consistent) }

\* metas.map(meta => meta.tags).flat(): a document without tags contributes
\* the one element undefined
flatTags(metas) ==
    UNION {IF has(metas[i], "tags")
           THEN {<<i, k>> : k \in DOMAIN metas[i].tags}
           ELSE {<<i, 0>>} : i \in DOMAIN metas}

tagAt(metas, pos) ==
    IF pos[2] = 0 THEN "undefined" ELSE metas[pos[1]].tags[pos[2]]

\* the Map from tag to number of occurrences
getAllTags(fs) ==
    { LET metas == r.value
          occ == flatTags(metas)
          keys == {tagAt(metas, pos) : pos \in occ}
      IN  Ok([t \in keys |->
                 Cardinality({pos \in occ : tagAt(metas, pos) = t})])
      : r \in getAllMetaData(fs, "") }

----------------------------------------------------------------------------
(* lib/markdown: readMDX *)

\* findIndex((item) => item.frontmatter.slug == slug); indices are 1-based
\* here and 0 stands for the -1 of "not found"
findIndexFirstItem(result, slug) == IF result = <<>> THEN 0 ELSE 1

findIndex(result, slug) ==
    LET hits == {i \in DOMAIN result :
                    /\ has(result[i].frontmatter, "slug")
                    /\ result[i].frontmatter.slug = slug}
    IN  IF hits = {} THEN 0
        ELSE CHOOSE i \in hits : \A j \in hits : i <= j

\* result[i] ?? null, then ?.frontmatter
frontmatterAt(result, i) ==
    IF i \in DOMAIN result THEN Some(result[i].frontmatter) ELSE Absent

previousOfLower(result, index) == frontmatterAt(result, index - 1)

previousOfSkip(result, index) == frontmatterAt(result, index + 2)

previousOf(result, index) == frontmatterAt(result, index + 1)

nextOf(result, index) == frontmatterAt(result, index - 1)

NullResult == [kind |-> "null"]

readMDX(fs, slug) ==
    LET result == [i \in DOMAIN fs |->
                      [frontmatter |-> compileMDX(fs[i]).frontmatter,
                       content     |-> compileMDX(fs[i]).content,
                       timeToRead  |-> estimateReadingTime(fs[i].text)]]
        consistent ==
            \A i \in DOMAIN result : has(result[i].frontmatter, "published")
        byPublished == [a \in Range(result), b \in Range(result) |->
                           cmpPublishedAsc(a, b)]
    IN  { LET index == findIndex(sorted, slug)
          IN  IF index = 0 THEN NullResult
              ELSE [kind     |-> "siblings",
                    previous |-> previousOf(sorted, index),
                    current  |-> sorted[index],
                    next     |-> nextOf(sorted, index)]
          : sorted \in sortOutcomes(result, byPublished, consistent) }

\* getBlogFromSlug is imported by the page from lib/markdown: the document
\* of the collection with that slug, compiled, or null
getBlogFromSlug(fs, slug) ==
    LET hits == {i \in DOMAIN fs :
                    /\ has(fs[i].frontmatter, "slug")
                    /\ fs[i].frontmatter.slug = slug}
    IN  IF hits = {} THEN {NullResult}
        ELSE {[kind |-> "blog", frontmatter |-> compileMDX(fs[i]).frontmatter,
               content |-> compileMDX(fs[i]).content] : i \in hits}

----------------------------------------------------------------------------
(* lib/locale.ts *)

locales == << <<"e", "n">>, <<"f", "r">>, <<"j", "a">> >>

startsWith(s, p) == Len(s) >= Len(p) /\ SubSeq(s, 1, Len(p)) = p

\* String.prototype.split("/"): the pieces between the separators, empty
\* pieces included
RECURSIVE split(_)
split(s) ==
    IF \A i \in DOMAIN s : s[i] # "/" THEN <<s>>
    ELSE LET k == CHOOSE i \in DOMAIN s :
                      s[i] = "/" /\ \A j \in 1..(i - 1) : s[j] # "/"
         IN  <<SubSeq(s, 1, k - 1)>> \o split(SubSeq(s, k + 1, Len(s)))

\* Array.prototype.filter(Boolean) on strings: drops the empty ones
filterBoolean(segs) == SelectSeq(segs, LAMBDA x : x # <<>>)

getLocaleDefaultOnly(p) == locales[1]

getLocaleNoCheck(p) ==
    LET segs == filterBoolean(split(p))
    IN  IF segs = <<>> THEN locales[1] ELSE segs[1]

\* const [locale] = ... leaves locale undefined when there is no segment,
\* and locales.includes(undefined) is false
getLocale(p) ==
    LET segs == filterBoolean(split(p))
    IN  IF segs # <<>> /\ segs[1] \in Range(locales)
        THEN segs[1]
        ELSE locales[1]

pathnameHasLocale(p) ==
    \E i \in DOMAIN locales :
        \/ startsWith(p, <<"/">> \o locales[i] \o <<"/">>)
        \/ p = <<"/">> \o locales[i]

----------------------------------------------------------------------------
(* lib/dictionary.ts *)

enJson == [home |-> [title |-> "AriaDocs - Template"]]
jaJson == [home |-> [title |-> "AriaDocs - (ja)"]]   \* the Japanese title

\* the object literal: a loader for "en" and for "ja", nothing else
dictionaries == [l \in {<<"e", "n">>, <<"j", "a">>} |->
                    IF l = <<"e", "n">> THEN enJson ELSE jaJson]

\* dictionaries[locale]() : calling a missing property throws TypeError
getDictionary(locale) ==
    IF locale \in DOMAIN dictionaries
    THEN [ok |-> TRUE, dict |-> dictionaries[locale]]
    ELSE [ok |-> FALSE, error |-> "TypeError"]

----------------------------------------------------------------------------
(* Inputs *)

Slugs == {"a", "b", "c"}

Tags == {"", "x", "y"}          \* "" is the default: no filter

TagLists == {<<>>, <<"x">>, <<"y", "x">>}

\* published timestamps (epoch milliseconds in the content files)
Published == {1, 2, 3}

SeqsUpTo(S, n) == UNION {SeqsOfLen(S, k) : k \in 0..n}

\* well-formed documents
BlogDocs ==
    {MDXFile(MDXFrontmatter(s, p, <<"x">>, {})) : s \in Slugs, p \in Published}

\* the listing reads published and tags only
ListingDocs ==
    {MDXFile(MDXFrontmatter("a", p, t, {})) : p \in Published, t \in TagLists}

\* documents that lack keys: one key, or author and tags as the i18n post
MissingSets ==
    {{}} \cup {{k} : k \in RequiredFields} \cup {{"author", "tags"}}

MalformedDocs ==
    {MDXFile(MDXFrontmatter("a", 1, <<"x">>, m)) : m \in MissingSets}
    \cup {MDXFile(MDXFrontmatter("b", 2, <<"x">>, {}))}

isMalformed(file) == file.frontmatter.missing # {}

\* raw texts: `words' one-letter words, `sep' whitespace characters `ws'
\* between two of them, `lead' before the first and `trail' after the last
Text(words, sep, ws, lead, trail) ==
    LET body == words + (words - 1) * sep
    IN  [i \in 1..(lead + body + trail) |->
            IF i <= lead \/ i > lead + body THEN ws
            ELSE IF (i - lead - 1) % (sep + 1) = 0 THEN "w" ELSE ws]

WordCounts == {1, 2, 199, 200, 201, 400}

Texts ==
    {Text(n, sep, ws, lead, trail) :
        n \in WordCounts, sep \in 1..MaxSep, ws \in {" ", "\n"},
        lead \in 0..MaxPad, trail \in 0..MaxPad}

----------------------------------------------------------------------------
(* State machine: initial states *)

Pending == [kind |-> "pending"]
NextResp == [kind |-> "next"]
Redirect(loc) == [kind |-> "redirect", location |-> loc]

NoCall == [kind |-> "none"]

IdleLocale ==
    /\ pathname = <<"/">>
    /\ response = Pending
    /\ hops = 0
    /\ layout = [kind |-> "none"]

IdleContent ==
    /\ files = <<>>
    /\ op = [name |-> "none", arg |-> ""]
    /\ ret = [kind |-> "none"]
    /\ prev = NoCall

IdleReading ==
    /\ fileContent = <<>>
    /\ parsed = [kind |-> "none"]

InitLocale ==
    /\ pathname \in Pathnames
    /\ response = Pending
    /\ hops = 0
    /\ layout = [kind |-> "none"]
    /\ IdleContent
    /\ IdleReading

InitFiles(docs) ==
    /\ files \in SeqsUpTo(docs, MaxDocs)
    /\ op = [name |-> "none", arg |-> ""]
    /\ ret = [kind |-> "none"]
    /\ prev = NoCall
    /\ IdleLocale
    /\ IdleReading

Init == InitFiles(BlogDocs)

InitListing == InitFiles(ListingDocs)

InitMalformed == InitFiles(MalformedDocs)

InitReading ==
    /\ fileContent \in Texts
    /\ parsed = [kind |-> "none"]
    /\ IdleLocale
    /\ IdleContent

----------------------------------------------------------------------------
(* middleware.ts, layout.tsx *)

middleware ==
    /\ response = Pending
    /\ IF pathnameHasLocale(pathname)
       THEN response' = NextResp
       ELSE response' = Redirect(<<"/">> \o getLocale(pathname) \o pathname)
    /\ UNCHANGED <<pathname, hops, layout, contentVars, readingVars>>

\* NextResponse.redirect: the client requests the Location it was sent
FollowRedirect ==
    /\ response.kind = "redirect"
    /\ hops < MaxHops
    /\ pathname' = response.location
    /\ response' = Pending
    /\ hops' = hops + 1
    /\ UNCHANGED <<layout, contentVars, readingVars>>

\* the [lang] route: params.lang is the first path segment
RootLayout ==
    /\ response = NextResp
    /\ layout.kind = "none"
    /\ LET lang == filterBoolean(split(pathname))[1]
           r == getDictionary(lang)
       IN  layout' = IF r.ok
                     THEN [kind |-> "rendered", lang |-> lang, dict |-> r.dict]
                     ELSE [kind |-> "error", lang |-> lang, error |-> r.error]
    /\ UNCHANGED <<pathname, response, hops, contentVars, readingVars>>

NextLocale == middleware \/ FollowRedirect \/ RootLayout

SpecLocale == InitLocale /\ [][NextLocale]_vars

----------------------------------------------------------------------------
(* lib/markdown and app/blog/[slug]/page.tsx: operations *)

GetAllMetaData ==
    \E tag \in Tags : \E r \in getAllMetaData(files, tag) :
        /\ op' = [name |-> "getAllMetaData", arg |-> tag]
        /\ ret' = r
        /\ prev' = NoCall
        /\ UNCHANGED <<files, localeVars, readingVars>>

GetAllTags ==
    \E r \in getAllTags(files) :
        /\ op' = [name |-> "getAllTags", arg |-> ""]
        /\ ret' = r
        /\ prev' = NoCall
        /\ UNCHANGED <<files, localeVars, readingVars>>

ReadMDX ==
    \E slug \in Slugs : \E r \in readMDX(files, slug) :
        /\ op' = [name |-> "readMDX", arg |-> slug]
        /\ ret' = r
        /\ prev' = IF op.name = "readMDX"
                   THEN [kind |-> "call", arg |-> op.arg, ret |-> ret]
                   ELSE NoCall
        /\ UNCHANGED <<files, localeVars, readingVars>>

\* if (!blog) return notFound(); otherwise the frontmatter, the compiled
\* content and <Paginate slug={slug} />
SpecificBlogPage ==
    \E slug \in Slugs : \E blog \in getBlogFromSlug(files, slug) :
        /\ op' = [name |-> "SpecificBlogPage", arg |-> slug]
        /\ ret' = IF blog.kind = "null"
                  THEN [kind |-> "notFound"]
                  ELSE [kind |-> "page", frontmatter |-> blog.frontmatter,
                        content |-> blog.content, paginate |-> slug]
        /\ prev' = NoCall
        /\ UNCHANGED <<files, localeVars, readingVars>>

\* the callback readMDX maps over the files, for one file
ReadFile ==
    /\ parsed.kind = "none"
    /\ parsed' = [kind |-> "parsed",
                  timeToRead |-> estimateReadingTime(fileContent)]
    /\ UNCHANGED <<fileContent, localeVars, contentVars>>

Next == ReadMDX \/ SpecificBlogPage

NextListing == GetAllMetaData \/ GetAllTags

NextMalformed == GetAllMetaData \/ GetAllTags \/ ReadMDX

NextReading == ReadFile

Spec == Init /\ [][Next]_vars

SpecListing == InitListing /\ [][NextListing]_vars

SpecMalformed == InitMalformed /\ [][NextMalformed]_vars

SpecReading == InitReading /\ [][NextReading]_vars

----------------------------------------------------------------------------
(* Properties of the locale routing, checked under SpecLocale *)

en == locales[1]

\* number of "/" the pathname begins with
leadingSlashes(p) ==
    Cardinality({i \in DOMAIN p : \A j \in 1..i : p[j] = "/"})

\* the characters after the leading slashes, up to the next "/"
firstSegment(p) ==
    LET k == leadingSlashes(p)
        n == Cardinality({i \in (k + 1)..Len(p) :
                            \A j \in (k + 1)..i : p[j] # "/"})
    IN  SubSeq(p, k + 1, k + n)

\* C1 as stated: a pathname without a locale prefix is redirected to exactly
\* "/en" + pathname; a pathname with one passes through, no redirect.
C1_Original ==
    response.kind # "pending" =>
        IF pathnameHasLocale(pathname)
        THEN response = NextResp
        ELSE response = Redirect(<<"/">> \o en \o pathname)

\* C1 amended: a pathname without a locale prefix is redirected to
\* "/" + L + pathname, where L is "en" unless the pathname begins with two or
\* more slashes followed by a segment that is a locale, in which case L is
\* that segment; a pathname with a locale prefix passes through, no redirect.
C1_Amended ==
    response.kind # "pending" =>
        IF pathnameHasLocale(pathname)
        THEN response = NextResp
        ELSE LET L == IF /\ leadingSlashes(pathname) >= 2
                         /\ firstSegment(pathname) \in Range(locales)
                      THEN firstSegment(pathname)
                      ELSE en
             IN  response = Redirect(<<"/">> \o L \o pathname)

C1_Witness ==
    /\ response.kind = "redirect"
    /\ hops = 0
    /\ leadingSlashes(pathname) >= 2
    /\ firstSegment(pathname) \in Range(locales)
    /\ firstSegment(pathname) # en

\* C9: the target of every redirect has a locale prefix, so the middleware
\* passes it through: no navigation follows more than one redirect.
C9_NoRedirectLoop ==
    /\ response.kind = "redirect" => pathnameHasLocale(response.location)
    /\ hops <= 1
    /\ (hops = 1 /\ response.kind # "pending") => response = NextResp

C9_Witness ==
    /\ hops = 1
    /\ response = NextResp
    /\ layout.kind # "none"

\* C7 as stated: for every locale of the enumeration getDictionary resolves
\* to that locale's dictionary, never to an error.
C7_Original ==
    (layout.kind # "none" /\ layout.lang \in Range(locales)) =>
        /\ layout.kind = "rendered"
        /\ layout.lang = <<"e", "n">> => layout.dict = enJson
        /\ layout.lang = <<"j", "a">> => layout.dict = jaJson

----------------------------------------------------------------------------
(* Properties of readMDX and the page, checked under Spec *)

frontmatters == [i \in DOMAIN files |-> files[i].frontmatter]

slugExists(slug) == \E i \in DOMAIN files : frontmatters[i].slug = slug

ascending(s) ==
    \A i, j \in DOMAIN s : i < j => s[i].published <= s[j].published

\* C2: readMDX answers from an ascending-by-published arrangement of the
\* collection: null when no document has the slug; otherwise, with i the
\* first index holding the slug, current is the document at i, previous the
\* metadata at i+1 (absent at the last index), next the metadata at i-1
\* (absent at the first).  One document: previous and next both absent.
C2_ReadMDXSiblings ==
    op.name = "readMDX" =>
        /\ \E f \in Perms(Len(files)) :
             LET s == [k \in DOMAIN files |-> frontmatters[f[k]]]
                 hits == {k \in DOMAIN s : s[k].slug = op.arg}
             IN  /\ ascending(s)
                 /\ IF hits = {} THEN ret = NullResult
                    ELSE LET i == CHOOSE k \in hits : \A h \in hits : k <= h
                         IN  /\ ret.kind = "siblings"
                             /\ ret.current.frontmatter = s[i]
                             /\ ret.previous =
                                  IF i = Len(s) THEN Absent ELSE Some(s[i + 1])
                             /\ ret.next =
                                  IF i = 1 THEN Absent ELSE Some(s[i - 1])
        /\ (Len(files) = 1 /\ ret.kind = "siblings") =>
               (ret.previous = Absent /\ ret.next = Absent)

C2_Witness ==
    /\ op.name = "readMDX"
    /\ ret.kind = "siblings"
    /\ ret.previous # Absent
    /\ ret.next # Absent
    /\ ret.previous[1].published > ret.next[1].published

\* the fixture of C3: three documents, distinct slugs, distinct timestamps
threeDocFixture ==
    /\ Len(files) = 3
    /\ \A i, j \in DOMAIN files : i # j =>
          /\ frontmatters[i].slug # frontmatters[j].slug
          /\ frontmatters[i].published # frontmatters[j].published

oldest == CHOOSE d \in Range(frontmatters) :
              \A e \in Range(frontmatters) : d.published <= e.published

newest == CHOOSE d \in Range(frontmatters) :
              \A e \in Range(frontmatters) : d.published >= e.published

middle == CHOOSE d \in Range(frontmatters) : d # oldest /\ d # newest

\* C3 as stated: on A (oldest) < B < C (newest), resolving A yields
\* previous absent and resolving C yields next absent.
C3_Original ==
    (op.name = "readMDX" /\ threeDocFixture) =>
        /\ op.arg = oldest.slug => ret.previous = Absent
        /\ op.arg = newest.slug => ret.next = Absent

\* C3 amended: on A (oldest) < B < C (newest), resolving A yields next
\* absent (previous is B's metadata) and resolving C yields previous absent
\* (next is B's metadata).
C3_Amended ==
    (op.name = "readMDX" /\ threeDocFixture) =>
        /\ op.arg = oldest.slug =>
              (ret.next = Absent /\ ret.previous = Some(middle))
        /\ op.arg = newest.slug =>
              (ret.previous = Absent /\ ret.next = Some(middle))

C3_Witness ==
    /\ op.name = "readMDX"
    /\ threeDocFixture
    /\ op.arg = oldest.slug
    /\ ret.kind = "siblings"
    /\ ret.next = Absent
    /\ ret.previous # Absent

\* C4: when some document has the slug, the lookup returns a document with
\* that slug and the page renders it; when none has, the lookup returns null
\* (a value, nothing is thrown) and the page is the not-found outcome.
C4_LookupRoundTrip ==
    /\ op.name = "readMDX" =>
          IF slugExists(op.arg)
          THEN ret.kind = "siblings" /\ ret.current.frontmatter.slug = op.arg
          ELSE ret = NullResult
    /\ op.name = "SpecificBlogPage" =>
          IF slugExists(op.arg)
          THEN ret.kind = "page" /\ ret.frontmatter.slug = op.arg
          ELSE ret.kind = "notFound"

C4_Witness ==
    /\ op.name = "readMDX"
    /\ ret.kind = "siblings"
    /\ ret.current.frontmatter.slug = op.arg
    /\ Len(files) >= 2
    /\ frontmatters[1].slug # op.arg

uniqueSlugs ==
    \A i, j \in DOMAIN files :
        i # j => frontmatters[i].slug # frontmatters[j].slug

withSlug(slug) == CHOOSE d \in Range(frontmatters) : d.slug = slug

\* C10: in a collection with unique slugs, for documents X and Y,
\* readMDX(X.slug).previous is Y's metadata exactly when readMDX(Y.slug).next
\* is X's metadata, equal timestamps included.  X is the document of the
\* earlier call, Y the document of the later one.
C10_SiblingsConsistent ==
    (/\ op.name = "readMDX"
     /\ prev.kind = "call"
     /\ uniqueSlugs
     /\ slugExists(prev.arg)
     /\ slugExists(op.arg)) =>
        LET X == withSlug(prev.arg)
            Y == withSlug(op.arg)
        IN  (prev.ret.previous = Some(Y)) <=> (ret.next = Some(X))

C10_Witness ==
    /\ op.name = "readMDX"
    /\ prev.kind = "call"
    /\ uniqueSlugs
    /\ slugExists(prev.arg)
    /\ slugExists(op.arg)
    /\ prev.ret.previous = Some(withSlug(op.arg))
    /\ ret.next = Some(withSlug(prev.arg))
    /\ withSlug(op.arg).published = withSlug(prev.arg).published

----------------------------------------------------------------------------
(* Properties of getAllMetaData, checked under SpecListing *)

count(seq, x) == Cardinality({i \in DOMAIN seq : seq[i] = x})

descending(s) ==
    \A i \in 1..(Len(s) - 1) : s[i].published >= s[i + 1].published

\* C5: getAllMetaData returns the documents in descending order of
\* published; with a non-empty tag exactly the documents whose tags contain
\* it (all documents without one); the empty sequence, not an error, when no
\* document carries the tag.
C5_ListingSortedFiltered ==
    op.name = "getAllMetaData" =>
        /\ ret.kind = "ok"
        /\ descending(ret.value)
        /\ \A d \in Range(frontmatters) \cup Range(ret.value) :
              count(ret.value, d) =
                  IF op.arg = "" \/ op.arg \in Range(d.tags)
                  THEN count(frontmatters, d) ELSE 0
        /\ (op.arg # "" /\
            \A i \in DOMAIN files : op.arg \notin Range(frontmatters[i].tags))
               => ret.value = <<>>

C5_Witness ==
    /\ op.name = "getAllMetaData"
    /\ op.arg = "y"
    /\ ret.kind = "ok"
    /\ Len(ret.value) = 2
    /\ Len(files) = 3
    /\ ret.value[1].published > ret.value[2].published
    /\ frontmatters[1].published < frontmatters[3].published

----------------------------------------------------------------------------
(* Properties of the reading time, checked under SpecReading *)

\* the whitespace-delimited words of a text: each starts at a character
\* that is not whitespace and follows whitespace or nothing
words(text) ==
    Cardinality({i \in DOMAIN text :
                    /\ ~isWhitespace(text[i])
                    /\ (i = 1 \/ isWhitespace(text[i - 1]))})

\* C6 as stated: the reading time is ceil(w / 200), w the number of
\* whitespace-delimited words, also when the text begins or ends with
\* whitespace: 2 for 400 words, 1 for one word.
C6_Original ==
    parsed.kind = "parsed" =>
        LET w == words(fileContent)
        IN  /\ 200 * parsed.timeToRead >= w
            /\ 200 * (parsed.timeToRead - 1) < w

----------------------------------------------------------------------------
(* Properties of malformed collections, checked under SpecMalformed *)

\* C8 as stated: loading a collection in which some document lacks a
\* required frontmatter key fails with MalformedDocumentError.
C8_Original ==
    (/\ op.name \in {"getAllMetaData", "readMDX"}
     /\ \E i \in DOMAIN files : isMalformed(files[i])) =>
        (ret.kind = "error" /\ ret.error = "MalformedDocumentError")

====
